---- MODULE Spec2Model ----
(***************************************************************************)
(* Model of cytoai/models, src/ImageClassification/ImageClassification.ts: *)
(* imageToSquare, findCategoryIndex, extracted, createDataset, createModel,*)
(* evaluate and fit.                                                       *)
(*                                                                         *)
(* Two specifications share the module:                                    *)
(*   Spec      one call of an exported function, fit, evaluate or          *)
(*             createDataset, from its first statement to its return or    *)
(*             throw, createDataset unfolded step by step;                 *)
(*   SpecGeom  one call of imageToSquare on a source raster.               *)
(* JavaScript numbers are IEEE-754 binary64; the two arithmetic operations *)
(* of imageToSquare (a division and a multiplication) are computed exactly *)
(* on 53-bit significands with round-to-nearest-even.                      *)
(***************************************************************************)
EXTENDS Integers, Sequences, FiniteSets, TLC

VARIABLES
    \* ---- fit / evaluate ----
    op,          \* the exported function called: "fit", "evaluate" or "createDataset"
    categories,  \* the Category[] argument: sequence of category identifiers
    images,      \* the Image[] argument: sequence of Image records
    pc,          \* position of the call
    model,       \* outcome of createModel: "none", "compiled" or "threw"
    filtered,    \* createDataset's local `images` after the filter (line 53)
    started,     \* identifiers of the images whose decode has been started, in start order
    inflight,    \* identifiers of the images whose ImageJS.Image.load is pending
    xs,          \* createDataset's local xs: per-image tensors, in push order
    ys,          \* createDataset's local ys: class indices, in push order
    oneHotArgs,  \* the indices handed to tensorflow.oneHot (<<>> until it is called)
    live,        \* tensors allocated by the call and not disposed
    dataset,     \* outcome of createDataset
    events,      \* the steps of the call that have begun, in order
    ret,         \* what the call returned to its caller, "threw" when it threw
    \* ---- imageToSquare ----
    gpc,         \* position of the imageToSquare call
    source,      \* the image argument: [kind, width, height]
    size,        \* the size argument
    canvas       \* the canvas created by the call, with what was drawn on it

callVars == <<op, categories, images, pc, model, filtered, started, inflight, xs, ys,
              oneHotArgs, live, dataset, events, ret>>
geomVars == <<gpc, source, size, canvas>>
vars == <<op, categories, images, pc, model, filtered, started, inflight, xs, ys,
          oneHotArgs, live, dataset, events, ret, gpc, source, size, canvas>>

(***************************************************************************)
(* Bounds of the model.                                                    *)
(***************************************************************************)
MaxDim == 25
MaxCategories == 3
MaxImages == 2

(***************************************************************************)
(* IEEE-754 binary64 arithmetic on non-negative values.                    *)
(* A number is [cls, m, e]: cls is "nan", "inf", "zero" or "fin"; for      *)
(* "fin", m holds the 52 fraction bits of the significand as Limbs limbs   *)
(* of LimbBits bits, most significant first, the leading 1 implicit, and   *)
(* e is the exponent: the value is                                         *)
(*   (1 + m[1]/Base + m[2]/Base^2 + m[3]/Base^3 + m[4]/Base^4) * 2^e.      *)
(* Operands are integers below Base, so every intermediate value stays     *)
(* below 2^31.                                                             *)
(***************************************************************************)
LimbBits == 13
Limbs == 4

RECURSIVE Pow2(_)
Pow2(k) == IF k = 0 THEN 1 ELSE 2 * Pow2(k - 1)

Base == Pow2(LimbBits)

NaN == [cls |-> "nan", m |-> <<>>, e |-> 0]
Infinity == [cls |-> "inf", m |-> <<>>, e |-> 0]
Zero == [cls |-> "zero", m |-> <<>>, e |-> 0]

Fin(m, e) == [cls |-> "fin", m |-> m, e |-> e]

ZeroLimbs == [i \in 1..Limbs |-> 0]

\* floor(log2(n)) for n >= 1.
RECURSIVE Log2(_)
Log2(n) == IF n < 2 THEN 0 ELSE 1 + Log2(n \div 2)

\* The fraction plus one unit in the last place: <<carry out, limbs>>.
RECURSIVE IncLimbs(_)
IncLimbs(m) ==
    IF m = <<>> THEN <<1, <<>>>>
    ELSE LET n == Len(m)
             front == SubSeq(m, 1, n - 1)
         IN IF m[n] + 1 < Base THEN <<0, Append(front, m[n] + 1)>>
            ELSE LET r == IncLimbs(front) IN <<r[1], Append(r[2], 0)>>

\* The fraction minus one unit in the last place: <<borrow out, limbs>>.
RECURSIVE DecLimbs(_)
DecLimbs(m) ==
    IF m = <<>> THEN <<1, <<>>>>
    ELSE LET n == Len(m)
             front == SubSeq(m, 1, n - 1)
         IN IF m[n] > 0 THEN <<0, Append(front, m[n] - 1)>>
            ELSE LET r == DecLimbs(front) IN <<r[1], Append(r[2], Base - 1)>>

\* The neighbours of a finite positive number among the binary64 numbers.
Succ(x) ==
    LET inc == IncLimbs(x.m)
    IN IF inc[1] = 1 THEN Fin(ZeroLimbs, x.e + 1) ELSE Fin(inc[2], x.e)

Pred(x) ==
    LET dec == DecLimbs(x.m)
    IN IF dec[1] = 1 THEN Fin(dec[2], x.e - 1) ELSE Fin(dec[2], x.e)

\* Round-to-nearest, ties-to-even: m and e are the exact value truncated to 52
\* fraction bits, round is the first bit dropped, sticky tells whether a later
\* dropped bit is set.
RoundNearestEven(m, e, round, sticky) ==
    IF round = 1 /\ (sticky \/ m[Limbs] % 2 = 1) THEN Succ(Fin(m, e)) ELSE Fin(m, e)

\* The integer n (0 <= n < Base) as a binary64 number (exact).
RECURSIVE ShiftLimbs(_, _, _)
FromInt(n) ==
    IF n = 0 THEN Zero
    ELSE LET e == Log2(n)
         IN Fin(ShiftLimbs(ZeroLimbs, n - Pow2(e), e).m, e)

\* The bit string hi (s bits) followed by the limbs m, cut after 52 bits:
\* [m |-> the first 52 bits as limbs, out |-> the s bits dropped].
ShiftLimbs(m, hi, s) ==
    IF m = <<>> THEN [m |-> <<>>, out |-> hi]
    ELSE LET next == ShiftLimbs(Tail(m), Head(m) % Pow2(s), s)
         IN [m |-> <<hi * Pow2(LimbBits - s) + Head(m) \div Pow2(s)>> \o next.m,
             out |-> next.out]

\* Exponent of the quotient a / b (a, b > 0): the e with 2^e <= a/b < 2^(e+1).
RECURSIVE QuotientExponent(_, _, _)
QuotientExponent(a, b, e) ==
    IF a >= 2 * b THEN QuotientExponent(a, 2 * b, e + 1)
    ELSE IF a < b THEN QuotientExponent(2 * a, b, e - 1)
    ELSE e

\* Long division in base Base: the next `count` limbs of rem / d (rem < d) and
\* the remainder left.
RECURSIVE DivLimbs(_, _, _)
DivLimbs(rem, d, count) ==
    IF count = 0 THEN [m |-> <<>>, rem |-> rem]
    ELSE LET next == DivLimbs((rem * Base) % d, d, count - 1)
         IN [m |-> <<(rem * Base) \div d>> \o next.m, rem |-> next.rem]

\* a / b for integers 0 <= a, b < Base, as the `/` of JavaScript numbers.
Div(a, b) ==
    IF b = 0 THEN (IF a = 0 THEN NaN ELSE Infinity)
    ELSE IF a = 0 THEN Zero
    ELSE LET e == QuotientExponent(a, b, 0)
             num == IF e < 0 THEN a * Pow2(0 - e) ELSE a
             den == IF e > 0 THEN b * Pow2(e) ELSE b
             q == DivLimbs(num - den, den, Limbs)
             round == IF 2 * q.rem >= den THEN 1 ELSE 0
         IN RoundNearestEven(q.m, e, round, 2 * q.rem - round * den # 0)

\* The limbs m times the integer k, least significant limb first:
\* [m |-> the low 52 bits of the product, carry |-> the rest].
RECURSIVE MulLimbs(_, _)
MulLimbs(m, k) ==
    IF m = <<>> THEN [m |-> <<>>, carry |-> 0]
    ELSE LET n == Len(m)
             low == MulLimbs(SubSeq(m, 2, n), k)
             t == m[1] * k + low.carry
         IN [m |-> <<t % Base>> \o low.m, carry |-> t \div Base]

\* x * k for a number x and an integer 0 <= k < Base, as the `*` of JavaScript
\* numbers.
Mul(x, k) ==
    IF x.cls = "nan" THEN NaN
    ELSE IF x.cls = "inf" THEN (IF k = 0 THEN NaN ELSE Infinity)
    ELSE IF x.cls = "zero" \/ k = 0 THEN Zero
    ELSE LET prod == MulLimbs(x.m, k)
             int == k + prod.carry
             s == Log2(int)
             cut == ShiftLimbs(prod.m, int - Pow2(s), s)
             round == IF s = 0 THEN 0 ELSE cut.out \div Pow2(s - 1)
             sticky == s > 0 /\ cut.out % Pow2(s - 1) # 0
         IN RoundNearestEven(cut.m, x.e + s, round, sticky)

\* x <= y for numbers that are zero or finite.
RECURSIVE LimbsLeq(_, _)
LimbsLeq(a, b) ==
    IF a = <<>> THEN TRUE
    ELSE IF Head(a) # Head(b) THEN Head(a) < Head(b)
    ELSE LimbsLeq(Tail(a), Tail(b))

Leq(x, y) ==
    IF x.cls = "zero" THEN TRUE
    ELSE IF y.cls = "zero" THEN FALSE
    ELSE IF x.e # y.e THEN x.e < y.e
    ELSE LimbsLeq(x.m, y.m)

IsFinite(x) == x.cls \in {"zero", "fin"}

\* Math.max on two integers.
Max(a, b) == IF a >= b THEN a ELSE b

Min(a, b) == IF a <= b THEN a ELSE b

(***************************************************************************)
(* Records of @piximi/types and tensors.                                   *)
(***************************************************************************)
\* line 54: categoryIdentifier of an image that is not classified.
Sentinel == "00000000-0000-0000-0000-000000000000"

\* The category identifiers the model draws from.
CategoryIds == {Sentinel, "cat", "dog", "bird"}

\* The sequences over S of length at most n.
SeqsUpTo(S, n) == UNION {[1..k -> S] : k \in 0..n}

IsInjective(s) == \A i, j \in DOMAIN s : s[i] = s[j] => i = j

\* Category[]: identifier is what the code reads of a Category; identifiers
\* are unique.
CategoryLists == {c \in SeqsUpTo(CategoryIds, MaxCategories) : IsInjective(c)}

\* Image: the code reads categoryIdentifier and data; identifier tells the
\* images (and their data) apart. Image[] with identifier i at position i.
ImageLists ==
    {[i \in DOMAIN c |-> [identifier |-> i, categoryIdentifier |-> c[i]]] :
        c \in SeqsUpTo(CategoryIds, MaxImages)}

\* A tensor: `from` lists the images its rows were made from, `rows` holds the
\* rows of a label tensor.
Tensor(kind, from, rows) == [kind |-> kind, from |-> from, rows |-> rows]

NoTensor == Tensor("none", <<>>, <<>>)

\* tensorflow.tidy: of the tensors a scope allocates, the one it returns
\* outlives it and the others are disposed.
Tidy(allocated, result) == allocated \cap {result}

NoDataset ==
    [status |-> "none", success |-> FALSE, x |-> NoTensor, y |-> NoTensor,
     error |-> "none"]

(***************************************************************************)
(* findCategoryIndex (lines 30-37) and the helpers of createDataset.       *)
(***************************************************************************)
\* Array.prototype.findIndex: the zero-based position of the first match, -1
\* when there is none.
FindCategoryIndex(cats, identifier) ==
    IF \E i \in DOMAIN cats : cats[i] = identifier
    THEN (CHOOSE i \in DOMAIN cats :
              /\ cats[i] = identifier
              /\ \A j \in DOMAIN cats : cats[j] = identifier => i <= j) - 1
    ELSE -1

IsLabeledAny(image) == TRUE

\* lines 53-55: the filter's predicate.
IsLabeled(image) == image.categoryIdentifier # Sentinel

ClassIndexNoShift(categoryIndex) == categoryIndex

\* line 72: what is pushed to ys.
ClassIndex(categoryIndex) == categoryIndex - 1

\* lines 39-50: the tensors extracted allocates for an image inside its tidy
\* scope, the last being the one the scope returns.
ImageTensor(image) == Tensor("image", <<image.identifier>>, <<>>)

ExtractedAllocations(image) ==
    {Tensor(k, <<image.identifier>>, <<>>) :
        k \in {"fromPixels", "toFloat", "scalarOfSub", "sub", "scalarOfDiv", "div"}}
    \cup {ImageTensor(image)}

\* line 75: tensorflow.concat(xs), xs not empty: the rows of xs in order.
RECURSIVE Flatten(_)
Flatten(ts) == IF ts = <<>> THEN <<>> ELSE Head(ts).from \o Flatten(Tail(ts))

Concat(ts) == Tensor("batch", Flatten(ts), <<>>)

\* line 87: tensorflow.oneHot(indices, depth): row i has a 1 in column
\* indices[i] (columns counted from 0) and 0 elsewhere; an index outside
\* 0..depth-1 gives a row of zeros.
OneHot(indices, depth) ==
    Tensor("oneHot", <<>>,
           [i \in DOMAIN indices |->
               [j \in 1..depth |-> IF indices[i] = j - 1 THEN 1 ELSE 0]])

CanStartDecodeEager(k) == k = Len(started) + 1

\* lines 60-64: `for (const image of images) { let x = await extracted(image)`:
\* the k-th iteration begins when the awaits of the earlier ones have resolved.
CanStartDecode(k) == inflight = {} /\ k = Len(started) + 1

ShouldInvokeAlways(success) == TRUE

\* lines 150 and 162: `if (!success) return` guards the native operation.
ShouldInvoke(success) == success

(***************************************************************************)
(* fit (lines 157-167) and evaluate (lines 145-155), with createModel      *)
(* (lines 97-143) and createDataset (lines 52-95) they await; createDataset *)
(* is exported and also called on its own.                                 *)
(***************************************************************************)
\* createDataset throws; fit and evaluate do not catch (lines 148, 160).
Throw(error) ==
    /\ dataset' = [dataset EXCEPT !.status = "threw", !.error = error]
    /\ ret' = "threw"
    /\ pc' = "done"

\* createDataset returns: to fit / evaluate at lines 148, 160, or to the
\* caller of the exported createDataset.
ReturnToCaller ==
    /\ pc' = (IF op = "createDataset" THEN "done" ELSE "returned")
    /\ ret' = (IF op = "createDataset" THEN "Dataset" ELSE ret)

\* lines 146, 158: createModel(categories.length - 1, 100) is called.
CallCreateModel ==
    /\ pc = "start"
    /\ events' = Append(events, "createModel")
    /\ pc' = "createModel"
    /\ UNCHANGED <<op, categories, images, model, filtered, started, inflight,
                   xs, ys, oneHotArgs, live, dataset, ret>>

\* lines 97-143 run to the end: the compiled model is returned.
CreateModelReturns ==
    /\ pc = "createModel"
    /\ model' = "compiled"
    /\ pc' = "createDataset"
    /\ UNCHANGED <<op, categories, images, filtered, started, inflight, xs, ys,
                   oneHotArgs, live, dataset, events, ret>>

\* lines 101, 103, 114-132: loadLayersModel rejects, getLayer or a layer
\* constructor throws; fit / evaluate rethrow at lines 146, 158.
CreateModelThrows ==
    /\ pc = "createModel"
    /\ model' = "threw"
    /\ ret' = "threw"
    /\ pc' = "done"
    /\ UNCHANGED <<op, categories, images, filtered, started, inflight, xs, ys,
                   oneHotArgs, live, dataset, events>>

\* createDataset is called (by lines 148, 160 or directly); lines 53-58:
\* filter, xs = [], ys = [].
FilterImages ==
    /\ pc = "createDataset"
    /\ events' = Append(events, "createDataset")
    /\ filtered' = SelectSeq(images, IsLabeled)
    /\ pc' = "decode"
    /\ UNCHANGED <<op, categories, images, model, started, inflight, xs, ys,
                   oneHotArgs, live, dataset, ret>>

\* lines 60-61, 40: extracted(image) is called and awaits ImageJS.Image.load.
StartDecode ==
    /\ pc = "decode"
    /\ \E k \in DOMAIN filtered :
          /\ CanStartDecode(k)
          /\ started' = Append(started, filtered[k].identifier)
          /\ inflight' = inflight \cup {filtered[k].identifier}
    /\ UNCHANGED <<op, categories, images, pc, model, filtered, xs, ys,
                   oneHotArgs, live, dataset, events, ret>>

\* lines 40-49, 63: the load resolves, the tidy scope builds the image's
\* tensor, the tensor is pushed to xs.
DecodeResolves ==
    /\ pc = "decode"
    /\ \E k \in DOMAIN filtered :
          /\ filtered[k].identifier \in inflight
          /\ inflight' = inflight \ {filtered[k].identifier}
          /\ xs' = Append(xs, ImageTensor(filtered[k]))
          /\ live' = live \cup Tidy(ExtractedAllocations(filtered[k]),
                                    ImageTensor(filtered[k]))
    /\ UNCHANGED <<op, categories, images, pc, model, filtered, started, ys,
                   oneHotArgs, dataset, events, ret>>

\* line 40 (the load rejects) or lines 42-49 (drawing or a tensor operation
\* throws): createDataset and fit / evaluate rethrow.
DecodeRejects ==
    /\ pc = "decode"
    /\ \E k \in DOMAIN filtered :
          /\ filtered[k].identifier \in inflight
          /\ inflight' = inflight \ {filtered[k].identifier}
    /\ Throw("ImageDecodeError")
    /\ UNCHANGED <<op, categories, images, model, filtered, started, xs, ys,
                   oneHotArgs, live, events>>

\* lines 66-73, after the loop of lines 60-64 has ended.
BuildLabels ==
    /\ pc = "decode"
    /\ Len(xs) = Len(filtered)
    /\ ys' = [i \in DOMAIN filtered |->
                 ClassIndex(FindCategoryIndex(categories,
                                              filtered[i].categoryIdentifier))]
    /\ pc' = "concat"
    /\ UNCHANGED <<op, categories, images, model, filtered, started, inflight,
                   xs, oneHotArgs, live, dataset, events, ret>>

\* line 75 with xs not empty.
ConcatReturns ==
    /\ pc = "concat"
    /\ xs # <<>>
    /\ dataset' = [dataset EXCEPT !.x = Concat(xs)]
    /\ live' = live \cup Tidy({Concat(xs)}, Concat(xs))
    /\ pc' = "check"
    /\ UNCHANGED <<op, categories, images, model, filtered, started, inflight,
                   xs, ys, oneHotArgs, events, ret>>

\* line 75 with xs empty: tensorflow.concat asserts that it is given at least
\* one tensor and throws; createDataset and fit / evaluate rethrow.
ConcatThrows ==
    /\ pc = "concat"
    /\ xs = <<>>
    /\ Throw("ConcatEmptyList")
    /\ UNCHANGED <<op, categories, images, model, filtered, started, inflight,
                   xs, ys, oneHotArgs, live, events>>

\* lines 77-84: alert, return {success: false, x: x, y: x}.
ReturnFailure ==
    /\ pc = "check"
    /\ Len(categories) - 1 < 2
    /\ dataset' = [dataset EXCEPT !.status = "returned", !.success = FALSE,
                                  !.y = dataset.x]
    /\ ReturnToCaller
    /\ UNCHANGED <<op, categories, images, model, filtered, started, inflight,
                   xs, ys, oneHotArgs, live, events>>

\* lines 86-94: y = oneHot(ys, categories.length - 1) in a tidy scope (the
\* index tensor made from ys is disposed), return {success: true, x: x, y: y}.
ReturnSuccess ==
    /\ pc = "check"
    /\ ~(Len(categories) - 1 < 2)
    /\ oneHotArgs' = ys
    /\ LET y == OneHot(ys, Len(categories) - 1)
       IN /\ live' = live \cup Tidy({Tensor("indices", <<>>, <<ys>>), y}, y)
          /\ dataset' = [dataset EXCEPT !.status = "returned", !.success = TRUE,
                                        !.y = y]
    /\ ReturnToCaller
    /\ UNCHANGED <<op, categories, images, model, filtered, started, inflight,
                   xs, ys, events>>

\* lines 150-152, 162-164: return undefined.
SkipNative ==
    /\ pc = "returned"
    /\ ~ShouldInvoke(dataset.success)
    /\ ret' = "undefined"
    /\ pc' = "done"
    /\ UNCHANGED <<op, categories, images, model, filtered, started, inflight,
                   xs, ys, oneHotArgs, live, dataset, events>>

\* lines 154, 166: model.evaluate(x, y) / model.fit(x, y, args) is called.
InvokeNative ==
    /\ pc = "returned"
    /\ ShouldInvoke(dataset.success)
    /\ events' = Append(events, "native")
    /\ pc' = "native"
    /\ UNCHANGED <<op, categories, images, model, filtered, started, inflight,
                   xs, ys, oneHotArgs, live, dataset, ret>>

\* lines 154, 166: the awaited native operation resolves; its result is returned.
NativeResolves ==
    /\ pc = "native"
    /\ ret' = (IF op = "fit" THEN "History" ELSE "Scalars")
    /\ pc' = "done"
    /\ UNCHANGED <<op, categories, images, model, filtered, started, inflight,
                   xs, ys, oneHotArgs, live, dataset, events>>

\* lines 154, 166: the awaited native operation rejects.
NativeRejects ==
    /\ pc = "native"
    /\ ret' = "threw"
    /\ pc' = "done"
    /\ UNCHANGED <<op, categories, images, model, filtered, started, inflight,
                   xs, ys, oneHotArgs, live, dataset, events>>

(***************************************************************************)
(* imageToSquare (lines 5-28).                                             *)
(***************************************************************************)
\* The size extracted passes to imageToSquare (line 44).
SquareSize == 224

\* The target sizes the model calls imageToSquare with.
TargetSizes == {1, SquareSize, SquareSize + 1}

SourceKinds == {"HTMLImageElement", "HTMLCanvasElement"}

\* lines 9-12: naturalWidth/naturalHeight of an image element, width/height of
\* a canvas; both are the raster's dimensions.
Dimensions(image) == [width |-> image.width, height |-> image.height]

ScaleByMin(image, sz) ==
    Div(sz, Min(Dimensions(image).height, Dimensions(image).width))

\* line 14
Scale(image, sz) ==
    Div(sz, Max(Dimensions(image).height, Dimensions(image).width))

\* line 15
ScaledWidth(image, sz) == Mul(Scale(image, sz), Dimensions(image).width)

\* line 16
ScaledHeight(image, sz) == Mul(Scale(image, sz), Dimensions(image).height)

NoCanvas ==
    [created |-> FALSE, width |-> 0, height |-> 0, scale |-> Zero,
     drawn |-> FALSE, dx |-> 0, dy |-> 0, dw |-> Zero, dh |-> Zero, error |-> "none"]

\* lines 9-23: the dimensions, the scale, the scaled width and height, and a
\* fresh canvas of size x size; nothing in these lines throws.
Layout ==
    /\ gpc = "call"
    /\ canvas' = [NoCanvas EXCEPT !.created = TRUE,
                                  !.width = size,
                                  !.height = size,
                                  !.scale = Scale(source, size),
                                  !.dw = ScaledWidth(source, size),
                                  !.dh = ScaledHeight(source, size)]
    /\ gpc' = "draw"
    /\ UNCHANGED <<source, size>>

\* line 25, context.drawImage(image, 0, 0, width, height). The platform
\* returns without drawing when an argument is not finite or when the source
\* is an image element with a zero dimension, and throws InvalidStateError
\* when the source is a canvas with a zero dimension; for a zero-dimension
\* canvas with a non-finite argument the HTML standard tests the arguments
\* first and browsers may test the source first, so both outcomes are kept.
ArgsFinite == IsFinite(canvas.dw) /\ IsFinite(canvas.dh)

ZeroDimension(image) == image.width = 0 \/ image.height = 0

\* line 25 draws, line 27 returns the canvas.
DrawImageDraws ==
    /\ gpc = "draw"
    /\ ArgsFinite
    /\ ~ZeroDimension(source)
    /\ canvas' = [canvas EXCEPT !.drawn = TRUE, !.dx = 0, !.dy = 0]
    /\ gpc' = "returned"
    /\ UNCHANGED <<source, size>>

\* line 25 returns without drawing, line 27 returns the canvas.
DrawImageSkips ==
    /\ gpc = "draw"
    /\ \/ ~ArgsFinite
       \/ ZeroDimension(source) /\ source.kind = "HTMLImageElement"
    /\ gpc' = "returned"
    /\ UNCHANGED <<source, size, canvas>>

\* line 25 throws the platform's InvalidStateError; line 27 is not reached.
DrawImageThrows ==
    /\ gpc = "draw"
    /\ ZeroDimension(source)
    /\ source.kind = "HTMLCanvasElement"
    /\ canvas' = [canvas EXCEPT !.error = "InvalidStateError"]
    /\ gpc' = "threw"
    /\ UNCHANGED <<source, size>>

\* The call variables while imageToSquare is studied alone.
NoCall ==
    /\ op = "none"
    /\ categories = <<>>
    /\ images = <<>>
    /\ pc = "off"
    /\ model = "none"
    /\ filtered = <<>>
    /\ started = <<>>
    /\ inflight = {}
    /\ xs = <<>>
    /\ ys = <<>>
    /\ oneHotArgs = <<>>
    /\ live = {}
    /\ dataset = NoDataset
    /\ events = <<>>
    /\ ret = "none"

InitGeom ==
    /\ NoCall
    /\ gpc = "call"
    /\ source \in [kind : SourceKinds, width : 0..MaxDim, height : 0..MaxDim]
    /\ size \in TargetSizes
    /\ canvas = NoCanvas

NextGeom ==
    \/ Layout /\ UNCHANGED callVars
    \/ DrawImageDraws /\ UNCHANGED callVars
    \/ DrawImageSkips /\ UNCHANGED callVars
    \/ DrawImageThrows /\ UNCHANGED callVars

SpecGeom == InitGeom /\ [][NextGeom]_vars

(***************************************************************************)
(* One call of fit or evaluate.                                            *)
(***************************************************************************)
\* The imageToSquare variables while a call is studied.
NoGeom ==
    /\ gpc = "off"
    /\ source = [kind |-> "HTMLCanvasElement", width |-> 1, height |-> 1]
    /\ size = SquareSize
    /\ canvas = NoCanvas

Init ==
    /\ NoGeom
    /\ op \in {"fit", "evaluate", "createDataset"}
    /\ categories \in CategoryLists
    /\ images \in ImageLists
    /\ pc = (IF op = "createDataset" THEN "createDataset" ELSE "start")
    /\ model = "none"
    /\ filtered = <<>>
    /\ started = <<>>
    /\ inflight = {}
    /\ xs = <<>>
    /\ ys = <<>>
    /\ oneHotArgs = <<>>
    /\ live = {}
    /\ dataset = NoDataset
    /\ events = <<>>
    /\ ret = "none"

Next ==
    \/ CallCreateModel /\ UNCHANGED geomVars
    \/ CreateModelReturns /\ UNCHANGED geomVars
    \/ CreateModelThrows /\ UNCHANGED geomVars
    \/ FilterImages /\ UNCHANGED geomVars
    \/ StartDecode /\ UNCHANGED geomVars
    \/ DecodeResolves /\ UNCHANGED geomVars
    \/ DecodeRejects /\ UNCHANGED geomVars
    \/ BuildLabels /\ UNCHANGED geomVars
    \/ ConcatReturns /\ UNCHANGED geomVars
    \/ ConcatThrows /\ UNCHANGED geomVars
    \/ ReturnFailure /\ UNCHANGED geomVars
    \/ ReturnSuccess /\ UNCHANGED geomVars
    \/ SkipNative /\ UNCHANGED geomVars
    \/ InvokeNative /\ UNCHANGED geomVars
    \/ NativeResolves /\ UNCHANGED geomVars
    \/ NativeRejects /\ UNCHANGED geomVars

Spec == Init /\ [][Next]_vars

(***************************************************************************)
(* Properties.                                                             *)
(***************************************************************************)
IsPrefix(s, t) == Len(s) <= Len(t) /\ \A i \in DOMAIN s : s[i] = t[i]

Unclassified(image) == image.categoryIdentifier = Sentinel

\* The images of the input list that are not unclassified, in input order.
NonSentinelImages == SelectSeq(images, LAMBDA image : ~Unclassified(image))

NonSentinelIds == [i \in DOMAIN NonSentinelImages |-> NonSentinelImages[i].identifier]

Listed(identifier) == \E i \in DOMAIN categories : categories[i] = identifier

\* The position of a listed category in the category list, counted from 1.
Position(identifier) == CHOOSE i \in DOMAIN categories : categories[i] = identifier

AllLabeledListed ==
    \A i \in DOMAIN images :
        ~Unclassified(images[i]) => Listed(images[i].categoryIdentifier)

SentinelFirst == Len(categories) >= 1 /\ categories[1] = Sentinel

NonSentinelCategories ==
    Cardinality({i \in DOMAIN categories : categories[i] # Sentinel})

NativeCalls == Cardinality({i \in DOMAIN events : events[i] = "native"})

DatasetStarted == \E i \in DOMAIN events : events[i] = "createDataset"

\* C1: when createDataset returns a result, the batch size of x is the number
\* of input images whose categoryIdentifier is not the sentinel: the rows of x
\* come from exactly those images, each once.
C1_BatchIsNonSentinelImages ==
    dataset.status = "returned" =>
        /\ Len(dataset.x.from) =
               Cardinality({i \in DOMAIN images : ~Unclassified(images[i])})
        /\ \A i \in DOMAIN images :
               ~Unclassified(images[i]) <=>
                   \E r \in DOMAIN dataset.x.from :
                       dataset.x.from[r] = images[i].identifier

C1_Witness ==
    /\ dataset.status = "returned"
    /\ \E i \in DOMAIN images : Unclassified(images[i])
    /\ \E i \in DOMAIN images : ~Unclassified(images[i])

\* C2: with the sentinel first, at least two other categories and every
\* labeled image referencing a listed category, createDataset (no decode
\* failing) returns success = true with y of N rows and categories.length - 1
\* columns, row i holding its single 1 in the column numbered (position of the
\* i-th labeled image's category) - 1.
C2_LabelsAreOneHot ==
    ( /\ SentinelFirst
      /\ Len(categories) >= 3
      /\ AllLabeledListed
      /\ dataset.status \in {"returned", "threw"}
      /\ dataset.error # "ImageDecodeError" ) =>
        /\ dataset.status = "returned"
        /\ dataset.success
        /\ Len(dataset.y.rows) = Len(NonSentinelImages)
        /\ \A i \in DOMAIN dataset.y.rows :
              /\ Len(dataset.y.rows[i]) = Len(categories) - 1
              /\ \A j \in DOMAIN dataset.y.rows[i] :
                    dataset.y.rows[i][j] =
                        IF j = Position(NonSentinelImages[i].categoryIdentifier) - 1
                        THEN 1 ELSE 0

\* C3: with fewer than two non-sentinel categories, whatever the image list,
\* the list without labeled images included, createDataset returns
\* success = false and fit / evaluate return undefined without invoking the
\* native operation. Stated for the calls in which no I/O fails: the model
\* was assembled (for a class count of at least 1) and no decode was rejected.
C3_TooFewCategoriesReturnsFailure ==
    ( /\ pc = "done"
      /\ NonSentinelCategories < 2
      /\ op = "createDataset" \/ (model = "compiled" /\ Len(categories) >= 2)
      /\ dataset.error # "ImageDecodeError" ) =>
        /\ dataset.status = "returned"
        /\ ~dataset.success
        /\ op \in {"fit", "evaluate"} => ret = "undefined"
        /\ NativeCalls = 0

\* C4: the steps of a call begin in the order createModel, createDataset,
\* native operation; a createModel error prevents createDataset from starting;
\* when the call has ended the native operation has been invoked once if
\* createModel completed and createDataset returned success = true, and not
\* at all otherwise.
C4_NativeOnlyAfterModelAndDataset ==
    op \in {"fit", "evaluate"} =>
        /\ IsPrefix(events, <<"createModel", "createDataset", "native">>)
        /\ model = "threw" => (~DatasetStarted /\ dataset.status = "none")
        /\ NativeCalls > 0 =>
               (model = "compiled" /\ dataset.status = "returned" /\ dataset.success)
        /\ pc = "done" =>
               NativeCalls =
                   IF model = "compiled" /\ dataset.status = "returned"
                                         /\ dataset.success
                   THEN 1 ELSE 0

C4_Witness == pc = "done" /\ NativeCalls = 1 /\ ret \in {"History", "Scalars"}

\* C5: when a labeled image references a category that is not in the list,
\* createDataset fails: it returns no result and pushes no class index made
\* from the not-found position -1.
C5_UnlistedCategoryFails ==
    (\E i \in DOMAIN images :
        ~Unclassified(images[i]) /\ ~Listed(images[i].categoryIdentifier)) =>
        /\ dataset.status # "returned"
        /\ \A i \in DOMAIN ys : ys[i] # -1 - 1

\* C6: when createDataset has returned, with success true or false, every
\* tensor the call allocated and did not return has been released.
C6_OnlyReturnedTensorsLive ==
    dataset.status = "returned" => live \subseteq {dataset.x, dataset.y}

\* C7 as stated: whatever the position of the sentinel, when every labeled
\* image references a listed category, every index passed to oneHot lies in
\* 0 .. categories.length - 2.
C7_IndicesInRangeAnySentinelPosition ==
    AllLabeledListed =>
        \A i \in DOMAIN oneHotArgs :
            0 <= oneHotArgs[i] /\ oneHotArgs[i] < Len(categories) - 1

\* C7 amended: when the sentinel is at position 0 of the category list and
\* every labeled image references a listed category, every index passed to
\* oneHot lies in 0 .. categories.length - 2.
C7_IndicesInRangeSentinelFirst ==
    (AllLabeledListed /\ SentinelFirst) =>
        \A i \in DOMAIN oneHotArgs :
            0 <= oneHotArgs[i] /\ oneHotArgs[i] < Len(categories) - 1

C7_Witness ==
    /\ AllLabeledListed
    /\ SentinelFirst
    /\ Len(oneHotArgs) = 2
    /\ oneHotArgs[1] # oneHotArgs[2]

\* C8, at the size the program passes (224): for a source raster whose width
\* or height is zero, imageToSquare does not return a canvas (it fails with an
\* InvalidImage error instead).
C8_ZeroDimensionFails ==
    (ZeroDimension(source) /\ size = SquareSize) => gpc # "returned"

Near(x, y) == x = y \/ x = Succ(y) \/ x = Pred(y)

LargerDrawn == IF source.width >= source.height THEN canvas.dw ELSE canvas.dh

SmallerDrawn == IF source.width >= source.height THEN canvas.dh ELSE canvas.dw

PositiveSource == source.width > 0 /\ source.height > 0

\* C9 as stated, at the size the program passes (224): for a source of
\* positive width W and height H, imageToSquare returns a canvas of size x size with the source drawn at (0,0), drawn width
\* S*W/max(W,H) and drawn height S*H/max(W,H) (the binary64 numbers nearest
\* to them), the larger drawn dimension equal to S and the smaller at most S.
C9_LargerDimensionIsExactlySize ==
    (gpc \in {"returned", "threw"} /\ PositiveSource /\ size = SquareSize) =>
        /\ gpc = "returned"
        /\ canvas.width = size /\ canvas.height = size
        /\ canvas.drawn /\ canvas.dx = 0 /\ canvas.dy = 0
        /\ canvas.dw = Div(size * source.width, Max(source.width, source.height))
        /\ canvas.dh = Div(size * source.height, Max(source.width, source.height))
        /\ LargerDrawn = FromInt(size)
        /\ Leq(SmallerDrawn, FromInt(size))

\* C9 amended: for a source of positive width W and height H, imageToSquare
\* returns a canvas of exactly size x size with the source drawn at (0,0); the
\* drawn width and height are within one unit in the last place of the
\* binary64 numbers nearest to S*W/max(W,H) and S*H/max(W,H), the larger drawn
\* dimension is within one unit in the last place of S, and the smaller drawn
\* dimension is at most the larger.
C9_DrawnWithinRounding ==
    (gpc \in {"returned", "threw"} /\ PositiveSource) =>
        /\ gpc = "returned"
        /\ canvas.width = size /\ canvas.height = size
        /\ canvas.drawn /\ canvas.dx = 0 /\ canvas.dy = 0
        /\ Near(canvas.dw, Div(size * source.width, Max(source.width, source.height)))
        /\ Near(canvas.dh, Div(size * source.height, Max(source.width, source.height)))
        /\ Near(LargerDrawn, FromInt(size))
        /\ Leq(SmallerDrawn, LargerDrawn)

C9_Witness ==
    /\ gpc = "returned"
    /\ size = SquareSize
    /\ source.width = 25
    /\ source.height = 3
    /\ canvas.drawn
    /\ canvas.dw = Succ(FromInt(SquareSize))

\* C10: at most one image decode is in flight at any moment, decodes start in
\* input order, and when createDataset returns, row i of x and entry i of the
\* label vector both come from the i-th non-sentinel image of the input list.
C10_SequentialDecodesPairRows ==
    /\ Cardinality(inflight) <= 1
    /\ IsPrefix(started, NonSentinelIds)
    /\ dataset.status = "returned" =>
          /\ dataset.x.from = NonSentinelIds
          /\ Len(ys) = Len(NonSentinelImages)
          /\ \A i \in DOMAIN ys :
                ys[i] = IF Listed(NonSentinelImages[i].categoryIdentifier)
                        THEN Position(NonSentinelImages[i].categoryIdentifier) - 2
                        ELSE -2

C10_Witness ==
    /\ dataset.status = "returned"
    /\ Len(dataset.x.from) = 2
    /\ ys[1] # ys[2]

====
